---- MODULE Spec2Model ----
(***************************************************************************)
(* Model of the devotional API: the HTTP facade (src/api/main.py) and the  *)
(* scraper (src/api/scraper.py).                                           *)
(*                                                                         *)
(* One behaviour serves one request.  Text is modelled as sequences of     *)
(* tokens: date strings are sequences of characters (a month name is one   *)
(* token), URLs are sequences of URL pieces, the inline script of a page   *)
(* is a sequence of structural JSON tokens, a verse reference is a         *)
(* sequence of words, blanks and semicolons.  The site is external: every  *)
(* outbound fetch either fails or answers with a page drawn from a small   *)
(* set, independently of earlier answers.                                  *)
(***************************************************************************)
EXTENDS Integers, Sequences, FiniteSets, TLC

VARIABLES
    pc,            \* position of the request handler
    req,           \* the request being served
    current_url,   \* scrape_by_date: current_url / the URL handed to scrape_devotional_page
    steps,         \* scrape_by_date: iterations of `for _ in range(max_steps)` started
    page_html,     \* scrape_by_date: page_html of the iteration
    nav,           \* scrape_by_date: (page_date, prev_url, next_url) of the iteration
    indexFetches,  \* GETs of DEVOTIONALS_URL issued
    chainFetches,  \* GETs issued by the date walk's loop
    pageFetches,   \* GETs issued by scrape_devotional_page
    fetchFailed,   \* some outbound fetch of this request failed
    listCalled,    \* scrape_devotional_list was called
    input,         \* the last page received (index page or devotional page)
    response       \* the facade's answer

vars == <<pc, req, current_url, steps, page_html, nav, indexFetches,
          chainFetches, pageFetches, fetchFailed, listCalled, input, response>>

(***************************************************************************)
(* Bounds of the model.                                                    *)
(***************************************************************************)
\* longest inline script (in tokens) after the marker
MaxText == 7
\* longest verse reference (in tokens)
MaxVerse == 5
\* most items (anchors, script mentions) on an index page
MaxLinks == 3

(***************************************************************************)
(* Sequences                                                               *)
(***************************************************************************)
\* Python's None (and a key missing from a dict); no text equals it
None == <<"None">>

\* Python truthiness of an Optional[str]
Truthy(s) == s # None /\ s # <<>>

\* a `or` b on Optional[str]
OrElse(a, b) == IF Truthy(a) THEN a ELSE b

\* s[:n]
Take(s, n) == SubSeq(s, 1, IF Len(s) < n THEN Len(s) ELSE n)

\* s[n:]
Drop(s, n) == SubSeq(s, n + 1, Len(s))

\* c in s
Contains(s, c) == \E i \in 1..Len(s) : s[i] = c

\* index of the first c in s, 0 when there is none
IndexOf(s, c) ==
    IF Contains(s, c) THEN CHOOSE i \in 1..Len(s) : s[i] = c /\ \A j \in 1..(i - 1) : s[j] # c
    ELSE 0

\* s.split(c): the parts between the occurrences of c
RECURSIVE Split(_, _)
Split(s, c) ==
    LET i == IndexOf(s, c) IN
    IF i > 0 THEN <<SubSeq(s, 1, i - 1)>> \o Split(Drop(s, i), c) ELSE <<s>>

\* the function f over 1..k as a sequence
AsSeq(f) == <<>> \o f

(***************************************************************************)
(* Dates: datetime.strptime(s, "%Y-%m-%d"), dateutil's parser, strftime    *)
(***************************************************************************)
Digits == <<"0", "1", "2", "3", "4", "5", "6", "7", "8", "9">>

IsDigit(c) == \E i \in 1..10 : Digits[i] = c

DigitVal(c) == (CHOOSE i \in 1..10 : Digits[i] = c) - 1

AllDigits(s) == \A i \in 1..Len(s) : IsDigit(s[i])

RECURSIVE NumVal(_)
NumVal(s) == IF s = <<>> THEN 0 ELSE NumVal(SubSeq(s, 1, Len(s) - 1)) * 10 + DigitVal(s[Len(s)])

IsLeap(y) == (y % 4 = 0 /\ y % 100 # 0) \/ y % 400 = 0

DaysInMonth(y, m) ==
    IF m = 2 THEN (IF IsLeap(y) THEN 29 ELSE 28)
    ELSE IF m \in {4, 6, 9, 11} THEN 30 ELSE 31

NoDate == [ok |-> FALSE, y |-> 0, m |-> 0, d |-> 0]

\* the directive %Y: exactly four digits
MatchesY(p) == Len(p) = 4 /\ AllDigits(p)

\* the directive %m: 1[0-2]|0[1-9]|[1-9]
MatchesM(p) == /\ Len(p) \in {1, 2}
               /\ AllDigits(p)
               /\ NumVal(p) \in 1..12

\* the directive %d: 3[01]|[12]\d|0[1-9]|[1-9]| [1-9]
MatchesD(p) == \/ Len(p) \in {1, 2} /\ AllDigits(p) /\ NumVal(p) \in 1..31
               \/ Len(p) = 2 /\ p[1] = " " /\ IsDigit(p[2]) /\ p[2] # "0"

DayVal(p) == IF p[1] = " " THEN DigitVal(p[2]) ELSE NumVal(p)

\* a parser that reads three groups of digits and checks neither the ranges
\* of the fields nor the calendar
StrptimeUnchecked(s) ==
    LET parts == Split(s, "-") IN
    IF /\ s # None
       /\ Len(parts) = 3
       /\ \A i \in 1..3 : parts[i] # <<>> /\ AllDigits(parts[i])
    THEN [ok |-> TRUE, y |-> NumVal(parts[1]), m |-> NumVal(parts[2]), d |-> NumVal(parts[3])]
    ELSE NoDate

\* datetime.strptime(s, "%Y-%m-%d"): ok = FALSE stands for ValueError
Strptime(s) ==
    LET parts == Split(s, "-") IN
    IF /\ s # None
       /\ Len(parts) = 3
       /\ MatchesY(parts[1]) /\ MatchesM(parts[2]) /\ MatchesD(parts[3])
       /\ NumVal(parts[1]) >= 1
       /\ DayVal(parts[3]) <= DaysInMonth(NumVal(parts[1]), NumVal(parts[2]))
    THEN [ok |-> TRUE, y |-> NumVal(parts[1]), m |-> NumVal(parts[2]), d |-> DayVal(parts[3])]
    ELSE NoDate

\* n written with at least w digits
RECURSIVE Pad(_, _)
Pad(n, w) == IF w <= 1 /\ n < 10 THEN <<Digits[n + 1]>>
             ELSE Pad(n \div 10, w - 1) \o <<Digits[(n % 10) + 1]>>

\* dt.strftime("%Y-%m-%d")
Strftime(dt) == Pad(dt.y, 4) \o <<"-">> \o Pad(dt.m, 2) \o <<"-">> \o Pad(dt.d, 2)

\* the comparison with its sides exchanged
DateLTSwapped(a, b) ==
    \/ b.y < a.y
    \/ b.y = a.y /\ b.m < a.m
    \/ b.y = a.y /\ b.m = a.m /\ b.d < a.d

\* dt1.date() < dt2.date()
DateLT(a, b) ==
    \/ a.y < b.y
    \/ a.y = b.y /\ a.m < b.m
    \/ a.y = b.y /\ a.m = b.m /\ a.d < b.d

MonthNames == <<"January", "February", "March", "April", "May", "June", "July",
                "August", "September", "October", "November", "December">>

IsMonthName(c) == \E i \in 1..12 : MonthNames[i] = c

MonthVal(c) == CHOOSE i \in 1..12 : MonthNames[i] = c

\* "<Month> <d>, <yyyy>" as dateutil reads it
LongForm(s) ==
    LET comma == IndexOf(s, ",")
        day   == SubSeq(s, 3, comma - 1)
        year  == Drop(s, comma + 1)
    IN
    IF /\ Len(s) >= 6 /\ IsMonthName(s[1]) /\ s[2] = " "
       /\ comma >= 4 /\ Len(s) > comma /\ s[comma + 1] = " "
       /\ Len(day) \in {1, 2} /\ AllDigits(day)
       /\ Len(year) = 4 /\ AllDigits(year) /\ NumVal(year) >= 1
       /\ NumVal(day) \in 1..DaysInMonth(NumVal(year), MonthVal(s[1]))
    THEN [ok |-> TRUE, y |-> NumVal(year), m |-> MonthVal(s[1]), d |-> NumVal(day)]
    ELSE NoDate

\* dateutil.parser.parse on the forms the pages of the model carry: an ISO
\* date, an ISO date followed by "T" and a time, and "<Month> <d>, <yyyy>"
DateutilParse(s) ==
    IF s = None THEN NoDate
    ELSE IF Contains(s, "T") /\ IndexOf(s, "T") > 1 /\ Len(s) > IndexOf(s, "T")
         THEN Strptime(SubSeq(s, 1, IndexOf(s, "T") - 1))
    ELSE IF Strptime(s).ok THEN Strptime(s)
    ELSE LongForm(s)

\* parse_date: the date as YYYY-MM-DD, None when the parser raises
parse_date(s) == LET dt == DateutilParse(s) IN IF dt.ok THEN Strftime(dt) ELSE None

(***************************************************************************)
(* URLs.  A URL is a sequence of pieces: the origin, "/en", the            *)
(* devotional path prefix, a slug.                                         *)
(***************************************************************************)
BASE_URL == "https://www.odbm.org"

\* the text every devotional link carries
DEV_PATH == "/devotionals/devotional-category/"

\* DEVOTIONALS_URL, the index page
DEVOTIONALS_URL == <<BASE_URL, "/en/devotionals/">>

Slugs == {"a", "b"}

\* url.startswith("http")
StartsWithHttp(u) == u # <<>> /\ u[1] = BASE_URL

\* url.startswith("/")
StartsWithSlash(u) == u # <<>> /\ u[1] \in {"/en", DEV_PATH}

\* BASE_URL + path if path.startswith("/") else path
Absolute(path) == IF StartsWithSlash(path) THEN <<BASE_URL>> \o path ELSE path

\* re.compile(r'/devotionals/devotional-category/[^"\')\s<>]+') on one URL's
\* text: the prefix with at least one character after it, to the URL's end
PathMatches(u) ==
    IF \E i \in 1..(Len(u) - 1) : u[i] = DEV_PATH
    THEN <<Drop(u, IndexOf(u, DEV_PATH) - 1)>>
    ELSE <<>>

\* href=re.compile(r"/devotionals/devotional-category/")
HrefMatches(u) == Contains(u, DEV_PATH)

(***************************************************************************)
(* The inline script of a page, as structural tokens:                      *)
(*   "M"  the text `window._model = `                                      *)
(*   "{"  an opening brace        "}"  a closing brace                     *)
(*   "P"  the text `"pageModel":{` (a key and the brace opening its value) *)
(*   "q"  a double quote                                                   *)
(* Scalar members and commas are left out of the skeleton; the values of   *)
(* the page model's members are carried beside it (html.pm).               *)
(***************************************************************************)
Tokens == {"{", "}", "P", "q"}

\* the tokens holding the character "{"
OpensBrace(c) == c \in {"{", "P"}

NoData == [ok |-> FALSE, hasPM |-> FALSE, empty |-> FALSE]

\* json.loads on a token text: one object, strings closed, braces matched
\* outside strings; hasPM: the top-level object has the key pageModel
RECURSIVE JsonWalk(_, _, _, _, _)
JsonWalk(t, i, depth, inStr, topPM) ==
    IF i > Len(t)
    THEN IF depth = 0 /\ ~inStr /\ Len(t) > 0
         THEN [ok |-> TRUE, hasPM |-> topPM, empty |-> Len(t) = 2]
         ELSE NoData
    ELSE IF depth = 0 /\ i > 1 THEN NoData
    ELSE IF inStr
         THEN IF t[i] = "q" THEN JsonWalk(t, i + 1, depth, FALSE, topPM)
              ELSE IF t[i] = "P" THEN NoData
              ELSE JsonWalk(t, i + 1, depth, TRUE, topPM)
    ELSE IF t[i] = "{" THEN JsonWalk(t, i + 1, depth + 1, FALSE, topPM)
    ELSE IF depth = 0 THEN NoData
    ELSE IF t[i] = "P" THEN JsonWalk(t, i + 1, depth + 1, FALSE, topPM \/ depth = 1)
    ELSE IF t[i] = "}" THEN JsonWalk(t, i + 1, depth - 1, FALSE, topPM)
    ELSE IF t[i] = "q" THEN JsonWalk(t, i + 1, depth, TRUE, topPM)
    ELSE NoData

JsonLoads(t) == JsonWalk(t, 1, 0, FALSE, FALSE)

\* html_text.find('window._model = {'), 1-based; 0 stands for -1
FindModel(s) ==
    IF \E i \in 1..(Len(s) - 1) : s[i] = "M" /\ s[i + 1] = "{"
    THEN CHOOSE i \in 1..(Len(s) - 1) :
            /\ s[i] = "M" /\ s[i + 1] = "{"
            /\ \A j \in 1..(i - 1) : ~(s[j] = "M" /\ s[j + 1] = "{")
    ELSE 0

\* the brace scans look at no more than this many characters
SCAN_LIMIT == 500000

\* range(start_pos, min(start_pos + 500000, len(html_text))): its last index
ScanEnd(s, start_pos) ==
    IF start_pos + SCAN_LIMIT - 1 < Len(s) THEN start_pos + SCAN_LIMIT - 1 ELSE Len(s)

\* scrape_devotional_page's scan: at every return of the brace count to zero
\* try json.loads on the text so far; stop at the first text that parses
RECURSIVE PageScan(_, _, _, _)
PageScan(s, start_pos, i, brace_count) ==
    IF i > ScanEnd(s, start_pos) THEN NoData
    ELSE IF OpensBrace(s[i]) THEN PageScan(s, start_pos, i + 1, brace_count + 1)
    ELSE IF s[i] = "}"
         THEN LET page_data == JsonLoads(SubSeq(s, start_pos, i)) IN
              IF brace_count - 1 = 0 /\ page_data.ok
              THEN page_data
              ELSE PageScan(s, start_pos, i + 1, brace_count - 1)
    ELSE PageScan(s, start_pos, i + 1, brace_count)

\* page_data of scrape_devotional_page
PageData(s) == LET model_start == FindModel(s) IN
               IF model_start = 0 THEN NoData
               ELSE PageScan(s, model_start + 1, model_start + 1, 0)

\* _parse_devotional_nav's scan: end_pos, one past the first return of the
\* brace count to zero; start_pos when there is none
RECURSIVE NavScan(_, _, _, _)
NavScan(s, start_pos, i, brace_count) ==
    IF i > ScanEnd(s, start_pos) THEN start_pos
    ELSE IF OpensBrace(s[i]) THEN NavScan(s, start_pos, i + 1, brace_count + 1)
    ELSE IF s[i] = "}"
         THEN IF brace_count - 1 = 0 THEN i + 1
              ELSE NavScan(s, start_pos, i + 1, brace_count - 1)
    ELSE NavScan(s, start_pos, i + 1, brace_count)

\* data of _parse_devotional_nav (ok = FALSE: an early return)
NavData(s) ==
    LET model_start == FindModel(s)
        start_pos == model_start + 1
    IN
    IF model_start = 0 THEN NoData
    ELSE JsonLoads(SubSeq(s, start_pos, NavScan(s, start_pos, start_pos, 0) - 1))

(***************************************************************************)
(* A devotional page: html.script is its inline script, html.pm the        *)
(* members of the script's pageModel object (None: the key is missing),    *)
(* html.dom what the HTML fallback can see.                                *)
(***************************************************************************)
\* _parse_devotional_nav: <<date_str, prev_url, next_url>>
NoNav == <<None, None, None>>

\* date_str of _parse_devotional_nav, from otherDate
NavOtherDate(pm) ==
    IF pm.otherDate = None THEN None
    ELSE IF Contains(pm.otherDate, "T") THEN Split(pm.otherDate, "T")[1]
    ELSE OrElse(parse_date(pm.otherDate), Take(pm.otherDate, 10))

\* the date read from devotionalDate first, from otherDate only without it
NavDateDevotionalFirst(pm) ==
    IF pm.devotionalDate # None /\ Truthy(parse_date(pm.devotionalDate))
    THEN parse_date(pm.devotionalDate)
    ELSE NavOtherDate(pm)

\* date_str of _parse_devotional_nav
NavDate(pm) ==
    LET date_str == NavOtherDate(pm) IN
    IF ~Truthy(date_str) /\ pm.devotionalDate # None
    THEN OrElse(parse_date(pm.devotionalDate), <<>>)
    ELSE date_str

\* prev_url, next_url of _parse_devotional_nav
NavLink(path) == IF Truthy(path) THEN Absolute(path) ELSE None

EmptyPM == [otherDate |-> None, devotionalDate |-> None,
            previousDevotionalUrl |-> None, nextDevotionalUrl |-> None,
            pageTitle |-> None, heroTitle |-> None, verse |-> None]

\* page_html before a page is received
NoPage == [script |-> None, pm |-> EmptyPM, dom |-> [h1 |-> None, dateText |-> None]]

_parse_devotional_nav(html) ==
    LET data == NavData(html.script)
        pm == IF data.hasPM THEN html.pm ELSE EmptyPM
    IN
    IF ~data.ok THEN NoNav
    ELSE <<NavDate(pm), NavLink(pm.previousDevotionalUrl), NavLink(pm.nextDevotionalUrl)>>

\* the names scrape_devotional_page looks for in an unsplit reference
OTBooks == {"Genesis", "Exodus", "Leviticus", "Numbers", "Deuteronomy", "Joshua",
            "Judges", "Ruth", "Samuel", "Kings", "Chronicles", "Ezra", "Nehemiah",
            "Esther", "Job", "Psalms", "Proverbs", "Ecclesiastes", "Song", "Isaiah",
            "Jeremiah", "Lamentations", "Ezekiel", "Daniel", "Hosea", "Joel", "Amos",
            "Obadiah", "Jonah", "Micah", "Nahum", "Habakkuk", "Zephaniah", "Haggai",
            "Zechariah", "Malachi"}

\* s.strip()
RECURSIVE Strip(_)
Strip(s) ==
    IF s # <<>> /\ s[1] = " " THEN Strip(Drop(s, 1))
    ELSE IF s # <<>> /\ s[Len(s)] = " " THEN Strip(SubSeq(s, 1, Len(s) - 1))
    ELSE s

\* any(book in verse_text for book in [...]): a word of the text holds a name
NamesOTBook(verse_text) == \E i \in 1..Len(verse_text) : verse_text[i] \in OTBooks

\* the last part of the reference instead of its second
LastPart(parts) == Strip(parts[Len(parts)])

\* new_testament of a reference holding a semicolon: parts[1].strip()
SecondPart(parts) == Strip(parts[2])

\* bible_in_year of scrape_devotional_page
BibleInYear(verse_text) ==
    LET parts == Split(verse_text, ";") IN
    IF ~Truthy(verse_text) THEN [old_testament |-> <<>>, new_testament |-> <<>>]
    ELSE IF Len(parts) >= 2
         THEN [old_testament |-> Strip(parts[1]), new_testament |-> SecondPart(parts)]
    ELSE IF NamesOTBook(verse_text)
         THEN [old_testament |-> verse_text, new_testament |-> <<>>]
    ELSE [old_testament |-> <<>>, new_testament |-> verse_text]

\* a page parser that fetches the page whether or not it was handed the HTML
FetchesPageAlways(html_text) == TRUE

\* `if html_text is None`: scrape_devotional_page fetches the page itself
FetchesPage(html_text) == html_text = NoPage

\* the test choosing between the embedded data and the HTML fallback
UsesPageModel(html) ==
    LET page_data == PageData(html.script) IN
    page_data.ok /\ ~page_data.empty /\ page_data.hasPM

\* the URL scrape_devotional_page fetches and reports
FullUrl(url) ==
    IF StartsWithHttp(url) THEN url
    ELSE IF StartsWithSlash(url) THEN <<BASE_URL>> \o url
    ELSE <<BASE_URL, "/">> \o url

\* scrape_devotional_page on the HTML of a page: the record (title, date,
\* bible_in_year and url; the other fields play no part here)
scrape_devotional_page(url, html) ==
    IF UsesPageModel(html)
    THEN [title |-> OrElse(OrElse(html.pm.pageTitle, <<>>), OrElse(html.pm.heroTitle, <<>>)),
          date |-> IF html.pm.devotionalDate # None
                   THEN OrElse(parse_date(html.pm.devotionalDate), <<>>) ELSE <<>>,
          bible_in_year |-> BibleInYear(html.pm.verse),
          url |-> FullUrl(url)]
    ELSE [title |-> OrElse(html.dom.h1, <<>>),
          date |-> IF html.dom.dateText # None
                   THEN OrElse(parse_date(html.dom.dateText), <<>>) ELSE <<>>,
          bible_in_year |-> BibleInYear(<<>>),
          url |-> FullUrl(url)]

(***************************************************************************)
(* The index page: a sequence of items, each an anchor inside <main>       *)
(* ("main_a"), an anchor elsewhere ("a") or a mention of a URL in a        *)
(* script or an attribute ("text").                                        *)
(***************************************************************************)
\* url_pattern.findall(html_text)
RECURSIVE FindPaths(_)
FindPaths(index) ==
    IF index = <<>> THEN <<>>
    ELSE PathMatches(index[1].href) \o FindPaths(Drop(index, 1))

\* main_content.find("a", href=...): the hrefs of the matching anchors in <main>
RECURSIVE MainAnchors(_)
MainAnchors(index) ==
    IF index = <<>> THEN <<>>
    ELSE (IF index[1].kind = "main_a" /\ HrefMatches(index[1].href)
          THEN <<index[1].href>> ELSE <<>>) \o MainAnchors(Drop(index, 1))

\* soup.find_all("a", href=...): the hrefs of all matching anchors
RECURSIVE AllAnchors(_)
AllAnchors(index) ==
    IF index = <<>> THEN <<>>
    ELSE (IF index[1].kind \in {"main_a", "a"} /\ HrefMatches(index[1].href)
          THEN <<index[1].href>> ELSE <<>>) \o AllAnchors(Drop(index, 1))

\* the two strategies in the other order: the anchor under <main> first
TodayUrlDomFirst(index) ==
    IF MainAnchors(index) # <<>> THEN MainAnchors(index)[1]
    ELSE IF FindPaths(index) # <<>> THEN <<BASE_URL>> \o FindPaths(index)[1]
    ELSE None

\* the URL scrape_today hands to scrape_devotional_page; None: ValueError
TodayUrl(index) ==
    IF FindPaths(index) # <<>> THEN <<BASE_URL>> \o FindPaths(index)[1]
    ELSE IF MainAnchors(index) # <<>> THEN MainAnchors(index)[1]
    ELSE None

\* unique_links of scrape_devotional_list: the first link of every href
RECURSIVE UniqueLinks(_, _)
UniqueLinks(links, seen_urls) ==
    IF links = <<>> THEN <<>>
    ELSE IF links[1] # <<>> /\ links[1] \notin seen_urls
         THEN <<links[1]>> \o UniqueLinks(Drop(links, 1), seen_urls \cup {links[1]})
    ELSE UniqueLinks(Drop(links, 1), seen_urls)

\* unique_links[offset:offset + limit], for offset >= 0 and limit >= 0
Paginate(links, offset, limit) ==
    SubSeq(links, offset + 1,
           IF offset + limit < Len(links) THEN offset + limit ELSE Len(links))

\* the previews of scrape_devotional_list (the url of each)
Previews(links) == [i \in 1..Len(links) |-> [url |-> Absolute(links[i])]]

scrape_devotional_list(index, limit, offset) ==
    Previews(Paginate(UniqueLinks(AllAnchors(index), {}), offset, limit))

\* the constraints without the upper bound on limit
QueryValidNoUpper(limit, offset) == limit >= 1 /\ offset >= 0

\* Query(ge=1, le=50) on limit and Query(ge=0) on offset
QueryValid(limit, offset) == limit >= 1 /\ limit <= 50 /\ offset >= 0

(***************************************************************************)
(* Inputs: requests, and the pages the site may answer with.               *)
(***************************************************************************)
D17 == <<"2", "0", "2", "4", "-", "0", "1", "-", "1", "7">>
D18 == <<"2", "0", "2", "4", "-", "0", "1", "-", "1", "8">>
D19 == <<"2", "0", "2", "4", "-", "0", "1", "-", "1", "9">>
Midnight == <<"T", "0", "0", ":", "0", "0", ":", "0", "0">>

\* "2024-13-40"
BadMonth == <<"2", "0", "2", "4", "-", "1", "3", "-", "4", "0">>

\* path parameters of GET /date/{date} that are no date: "2024-13-40",
\* "2024-02-30", "20240118", "not-a-date" and the empty string
MalformedTargets ==
    { BadMonth,
      <<"2", "0", "2", "4", "-", "0", "2", "-", "3", "0">>,
      <<"2", "0", "2", "4", "0", "1", "1", "8">>,
      <<"n", "o", "t", "-", "a", "-", "d", "a", "t", "e">>,
      <<>> }

\* path parameters of GET /date/{date}: "2024-01-18", "2024-1-18" and the
\* malformed ones
TargetStrings ==
    {D18, <<"2", "0", "2", "4", "-", "1", "-", "1", "8">>} \cup MalformedTargets

Limits == {0, 1, 2, 50, 51}

Offsets == {-1, 0, 1}

NoReq == [ep |-> "none", date |-> None, slug |-> None, limit |-> 0, offset |-> 0]

\* requests for GET /date/{date}
DateRequests == {[NoReq EXCEPT !.ep = "date", !.date = d] : d \in TargetStrings}

\* requests for GET /today, GET /devotional/{slug} and GET /list
SiteRequests ==
    {[NoReq EXCEPT !.ep = "today"]}
    \cup {[NoReq EXCEPT !.ep = "slug", !.slug = "a"]}
    \cup {[NoReq EXCEPT !.ep = "list", !.limit = l, !.offset = o] : l \in Limits, o \in Offsets}

Hrefs == {<<DEV_PATH, "a">>, <<DEV_PATH, "b">>, <<BASE_URL, DEV_PATH, "a">>, <<DEV_PATH>>}

IndexItems == [kind : {"main_a", "a", "text"}, href : Hrefs]

\* a script holding one object with an empty pageModel skeleton
GoodScript == <<"M", "{", "P", "}", "}">>

DefaultPM == [EmptyPM EXCEPT !.pageTitle = <<"Faith">>, !.heroTitle = <<"Hero">>,
                             !.devotionalDate = D18 \o Midnight]

DefaultDom == [h1 |-> <<"Heading">>,
               dateText |-> <<"January", " ", "1", "7", ",", " ", "2", "0", "2", "4">>]

\* the words, blanks and semicolons of a verse reference
VerseTokens == {"Genesis", "Samuel", "John", "1", " ", ";"}

\* a page with the given inline script
ScriptPage(sc) == [script |-> sc, pm |-> DefaultPM, dom |-> DefaultDom]

\* a page whose first bible-in-a-year entry has the given verse text
VersePage(v) == [script |-> GoodScript, pm |-> [DefaultPM EXCEPT !.verse = v],
                 dom |-> DefaultDom]

\* a few pages any fetch by scrape_devotional_page may receive
SamplePages == {ScriptPage(<<>>), ScriptPage(GoodScript), ScriptPage(<<"M", "{", "}">>),
                VersePage(None)}

ChainLinks == {None} \cup {<<DEV_PATH, sl>> : sl \in Slugs}

\* the pages a fetch of the date walk may receive
WalkPages ==
    {[script |-> <<>>, pm |-> DefaultPM, dom |-> DefaultDom]}
    \cup {[script |-> GoodScript,
           pm |-> [DefaultPM EXCEPT !.otherDate = od, !.devotionalDate = dd,
                                    !.previousDevotionalUrl = pl, !.nextDevotionalUrl = nl],
           dom |-> DefaultDom] :
            od \in {None, D17 \o Midnight, D18 \o Midnight, D19 \o Midnight,
                    <<"s", "o", "o", "n">>, <<"T", "B", "D">>},
            dd \in {None, D18 \o Midnight, D17 \o Midnight},
            pl \in ChainLinks, nl \in ChainLinks}

(***************************************************************************)
(* The facade and the scraper's entry points.                              *)
(***************************************************************************)
\* the date walk's step budget
max_steps == 400

\* no record: the handler raised, or has not returned
NoRecord == [title |-> None, date |-> None,
             bible_in_year |-> [old_testament |-> None, new_testament |-> None],
             url |-> None]

NoResponse == [status |-> 0, record |-> NoRecord, devotionals |-> <<>>, count |-> 0]

\* the facade's answer to a returned record
Ok(record) == [NoResponse EXCEPT !.status = 200, !.record = record]

\* except ValueError -> 404, except Exception -> 500 (get_today, get_by_date, get_by_slug)
StatusOf(exc) == IF exc = "ValueError" THEN 404 ELSE 500

Raise(exc) == [NoResponse EXCEPT !.status = StatusOf(exc)]

\* a loop that runs once more than its budget
LoopRunsInclusive(n) == n <= max_steps

\* the loop `for _ in range(max_steps)` starts another iteration
LoopRuns(n) == n < max_steps

\* a walk that returns the page it stands on when it has no link to follow
NoMatchStepReturns(prev_url, next_url) ==
    IF Truthy(prev_url) THEN [kind |-> "move", url |-> prev_url]
    ELSE IF Truthy(next_url) THEN [kind |-> "move", url |-> next_url]
    ELSE [kind |-> "return", url |-> None]

\* the end of the loop body (no date, or no match and no link in the wanted
\* direction): follow prev_url, else next_url, else break
NoMatchStep(prev_url, next_url) ==
    IF Truthy(prev_url) THEN [kind |-> "move", url |-> prev_url]
    ELSE IF Truthy(next_url) THEN [kind |-> "move", url |-> next_url]
    ELSE [kind |-> "break", url |-> None]

\* the loop body after the fetch: what the walk does with the page
\* ("return": build the record, "move": go on with url, "break": leave the loop)
WalkDecision(page_date, prev_url, next_url, target_str) ==
    LET target_dt == Strptime(target_str)
        page_dt == Strptime(page_date)
        Move(u) == [kind |-> "move", url |-> u]
        Fallback == NoMatchStep(prev_url, next_url)
    IN
    IF Truthy(page_date) /\ page_date = target_str THEN [kind |-> "return", url |-> None]
    ELSE IF Truthy(page_date) /\ page_dt.ok
         THEN IF ~DateLT(page_dt, target_dt) /\ ~DateLT(target_dt, page_dt)
              THEN [kind |-> "return", url |-> None]
              ELSE IF DateLT(target_dt, page_dt) /\ Truthy(prev_url) THEN Move(prev_url)
              ELSE IF DateLT(page_dt, target_dt) /\ Truthy(next_url) THEN Move(next_url)
              ELSE Fallback
    ELSE Fallback

\* the first chain URL: BASE_URL + "/en" + unique_paths[0]
StartUrl(index) == <<BASE_URL, "/en">> \o FindPaths(index)[1]

\* _parse_devotional_nav on the pages of the walk, computed once
NavTable == [h \in WalkPages |-> _parse_devotional_nav(h)]

NavRange == {NavTable[h] : h \in WalkPages} \cup {NoNav}

\* WalkDecision on the pages and targets of the walk, computed once
DecisionTable ==
    [n \in NavRange, t \in TargetStrings |-> WalkDecision(n[1], n[2], n[3], t)]

Start(requests) ==
    /\ pc = "start"
    /\ req \in requests
    /\ current_url = None
    /\ steps = 0
    /\ page_html = NoPage
    /\ nav = NoNav
    /\ indexFetches = 0
    /\ chainFetches = 0
    /\ pageFetches = 0
    /\ fetchFailed = FALSE
    /\ listCalled = FALSE
    /\ input = None
    /\ response = NoResponse

Respond(r) == pc' = "done" /\ response' = r

\* scrape_today receives the index page
TodayIndexReceived(index) ==
    /\ input' = index
    /\ fetchFailed' = fetchFailed
    /\ IF TodayUrl(index) = None
       THEN Respond(Raise("ValueError")) /\ UNCHANGED current_url
       ELSE pc' = "page" /\ current_url' = TodayUrl(index) /\ UNCHANGED response

\* get_today / scrape_today up to the call of scrape_devotional_page
TodayIndex ==
    /\ pc = "start" /\ req.ep = "today"
    /\ indexFetches' = indexFetches + 1
    /\ UNCHANGED <<req, steps, page_html, nav, chainFetches, pageFetches, listCalled>>
    /\ \/ /\ fetchFailed' = TRUE
          /\ Respond(Raise("Exception"))
          /\ UNCHANGED <<current_url, input>>
       \/ \E k \in 0..MaxLinks : \E items \in [1..k -> IndexItems] :
            TodayIndexReceived(AsSeq(items))

\* get_by_slug / scrape_by_slug up to the call of scrape_devotional_page
SlugStart ==
    /\ pc = "start" /\ req.ep = "slug"
    /\ pc' = "page"
    /\ current_url' = <<BASE_URL, "/en", DEV_PATH, req.slug>>
    /\ UNCHANGED <<req, steps, page_html, nav, indexFetches, chainFetches, pageFetches,
                   fetchFailed, listCalled, input, response>>

\* scrape_devotional_page(url) receives html and returns the record
PageReceived(html) ==
    /\ input' = html
    /\ fetchFailed' = fetchFailed
    /\ Respond(Ok(scrape_devotional_page(current_url, html)))

\* scrape_devotional_page(url): the fetch and the extraction (the pages of
\* every script and of every verse text are tried on GET /devotional/{slug})
FetchPage ==
    /\ pc = "page"
    /\ pageFetches' = pageFetches + 1
    /\ UNCHANGED <<req, current_url, steps, page_html, nav, indexFetches, chainFetches,
                   listCalled>>
    /\ \/ /\ fetchFailed' = TRUE
          /\ Respond(Raise("Exception"))
          /\ UNCHANGED input
       \/ \E html \in SamplePages : PageReceived(html)
       \/ /\ req.ep = "slug"
          /\ \E k \in 0..MaxText : \E r \in [1..k -> Tokens] :
                PageReceived(ScriptPage(<<"M">> \o r))
       \/ /\ req.ep = "slug"
          /\ \E k \in 0..MaxVerse : \E v \in [1..k -> VerseTokens] :
                PageReceived(VersePage(AsSeq(v)))

\* scrape_by_date receives the index page (list_html is dead once the first
\* chain URL is taken from it, and is not kept)
DateIndexReceived(index) ==
    /\ fetchFailed' = fetchFailed
    /\ IF FindPaths(index) = <<>>
       THEN /\ Respond(Raise("ValueError"))
            /\ input' = index
            /\ UNCHANGED current_url
       ELSE /\ pc' = "walk"
            /\ current_url' = StartUrl(index)
            /\ UNCHANGED <<input, response>>

\* get_by_date / scrape_by_date up to the loop
DateStart ==
    /\ pc = "start" /\ req.ep = "date"
    /\ UNCHANGED <<req, steps, page_html, nav, chainFetches, pageFetches, listCalled>>
    /\ IF ~Strptime(req.date).ok
       THEN /\ Respond(Raise("ValueError"))
            /\ UNCHANGED <<current_url, indexFetches, fetchFailed, input>>
       ELSE /\ indexFetches' = indexFetches + 1
            /\ \/ /\ fetchFailed' = TRUE
                  /\ Respond(Raise("Exception"))
                  /\ UNCHANGED <<current_url, input>>
               \/ \E k \in 0..MaxLinks : \E items \in [1..k -> IndexItems] :
                    DateIndexReceived(AsSeq(items))

\* one iteration of the loop up to _parse_devotional_nav
WalkFetch ==
    /\ pc = "walk" /\ LoopRuns(steps)
    /\ steps' = steps + 1
    /\ chainFetches' = chainFetches + 1
    /\ UNCHANGED <<req, current_url, indexFetches, pageFetches, listCalled, input>>
    /\ \/ /\ fetchFailed' = TRUE
          /\ Respond(Raise("ValueError"))
          /\ UNCHANGED <<page_html, nav>>
       \/ \E html \in WalkPages :
            /\ page_html' = html
            /\ nav' = NavTable[html]
            /\ fetchFailed' = fetchFailed
            /\ pc' = "walk_step"
            /\ UNCHANGED response

\* the rest of the iteration: return the record (scrape_devotional_page is
\* handed page_html), move on, or leave the loop
\* (page_html and nav are dead once the walk moves on, and are reset)
WalkStep ==
    /\ pc = "walk_step"
    /\ UNCHANGED <<req, steps, indexFetches, chainFetches, fetchFailed, listCalled, input>>
    /\ LET d == DecisionTable[nav, req.date] IN
       IF d.kind = "return"
       THEN /\ Respond(Ok(scrape_devotional_page(current_url, page_html)))
            /\ pageFetches' = IF FetchesPage(page_html) THEN pageFetches + 1
                               ELSE pageFetches
            /\ UNCHANGED <<current_url, page_html, nav>>
       ELSE IF d.kind = "move"
       THEN /\ pc' = "walk"
            /\ current_url' = d.url
            /\ page_html' = NoPage
            /\ nav' = NoNav
            /\ UNCHANGED <<pageFetches, response>>
       ELSE /\ Respond(Raise("ValueError"))
            /\ UNCHANGED <<current_url, page_html, nav, pageFetches>>

\* the loop ran max_steps times: raise ValueError
WalkExhausted ==
    /\ pc = "walk" /\ ~LoopRuns(steps)
    /\ Respond(Raise("ValueError"))
    /\ UNCHANGED <<req, current_url, steps, page_html, nav, indexFetches, chainFetches,
                   pageFetches, fetchFailed, listCalled, input>>

\* get_list's parameters fail the Query constraints: the framework answers 422
ListReject ==
    /\ pc = "start" /\ req.ep = "list"
    /\ ~QueryValid(req.limit, req.offset)
    /\ Respond([NoResponse EXCEPT !.status = 422])
    /\ UNCHANGED <<req, current_url, steps, page_html, nav, indexFetches, chainFetches,
                   pageFetches, fetchFailed, listCalled, input>>

\* scrape_devotional_list receives the index page
ListReceived(index) ==
    /\ input' = index
    /\ fetchFailed' = fetchFailed
    /\ LET devotionals == scrape_devotional_list(index, req.limit, req.offset) IN
       Respond([NoResponse EXCEPT !.status = 200,
                                  !.devotionals = devotionals,
                                  !.count = Len(devotionals)])

\* get_list / scrape_devotional_list
GetList ==
    /\ pc = "start" /\ req.ep = "list"
    /\ QueryValid(req.limit, req.offset)
    /\ listCalled' = TRUE
    /\ indexFetches' = indexFetches + 1
    /\ UNCHANGED <<req, current_url, steps, page_html, nav, chainFetches, pageFetches>>
    /\ \/ /\ fetchFailed' = TRUE
          /\ Respond([NoResponse EXCEPT !.status = 500])
          /\ UNCHANGED input
       \/ \E k \in 0..MaxLinks : \E items \in [1..k -> IndexItems] :
            ListReceived(AsSeq(items))

(***************************************************************************)
(* GET /date/{date}                                                        *)
(***************************************************************************)
Init == Start(DateRequests)

Next ==
    \/ DateStart
    \/ WalkFetch
    \/ WalkStep
    \/ WalkExhausted

Spec == Init /\ [][Next]_vars

(***************************************************************************)
(* GET /today, GET /devotional/{slug}, GET /list                           *)
(***************************************************************************)
InitSite == Start(SiteRequests)

NextSite ==
    \/ TodayIndex
    \/ SlugStart
    \/ FetchPage
    \/ ListReject
    \/ GetList

SpecSite == InitSite /\ [][NextSite]_vars

(***************************************************************************)
(* Properties of GET /date/{date}                                          *)
(***************************************************************************)
\* the request is a date request that has been answered
DateDone == pc = "done" /\ req.ep = "date"

\* the dates the embedded page model of the walk's page states: the date
\* part of otherDate and of devotionalDate, whichever are present
StatedDates(html) ==
    {Take(d, 10) : d \in {html.pm.otherDate, html.pm.devotionalDate} \ {None}}

\* the walk stands on a page whose date is that of the target
PageMatches ==
    /\ page_html # NoPage
    /\ Truthy(nav[1])
    /\ \/ nav[1] = req.date
       \/ Strptime(nav[1]).ok /\ Strptime(nav[1]) = Strptime(req.date)

\* the walk stands on a page with neither a previous nor a next link
DeadEnd == page_html # NoPage /\ ~Truthy(nav[2]) /\ ~Truthy(nav[3])

\* C1: for a well-formed YYYY-MM-DD target, when the walk has reached a page
\* of the chain whose embedded model states the target date and no other
\* date, the request is answered with a record and the record's date field
\* equals the requested date.
C1_RecordDateEqualsTarget ==
    (/\ DateDone
     /\ req.date = D18
     /\ page_html # NoPage
     /\ NavData(page_html.script).hasPM
     /\ StatedDates(page_html) = {req.date})
    => /\ response.status = 200
       /\ response.record # NoRecord
       /\ response.record.date = req.date

\* what is left of the request: two units for every chain fetch of the 400
\* not yet made, and the position within the iteration
Variant ==
    IF pc = "done" THEN 0
    ELSE IF pc = "start" THEN 2 * 400 + 2
    ELSE IF pc = "walk" THEN 2 * (400 - steps) + 1
    ELSE 2 * (400 - steps) + 2

\* C2: the date walk always terminates after fetching at most 400 chain
\* pages, whatever the previous/next links of the pages it is served (chains
\* that cycle or point back at each other included): never more than 400
\* chain pages are fetched, and every step of the request lowers a variant
\* that is never negative.
C2_WalkTerminates ==
    /\ [](chainFetches <= 400 /\ Variant >= 0)
    /\ [](pc \in {"start", "walk", "walk_step", "done"})
    /\ [][Variant' < Variant]_vars

\* C2, reached: the whole budget of 400 chain fetches has been spent on pages
\* that kept pointing to another page
C2_Witness ==
    /\ pc = "walk"
    /\ chainFetches = 400
    /\ current_url \in {<<BASE_URL>> \o l : l \in ChainLinks \ {None}}

\* C3: a date string that does not parse as YYYY-MM-DD is answered 404,
\* with no record, and no outbound fetch is issued for it: neither the index
\* page nor a chain page nor a devotional page is requested.
C3_MalformedDateFailsFast ==
    (req.ep = "date" /\ req.date \in MalformedTargets)
    => /\ indexFetches = 0 /\ chainFetches = 0 /\ pageFetches = 0
       /\ ~fetchFailed
       /\ pc \in {"start", "done"}
       /\ pc = "done" => response.status = 404 /\ response.record = NoRecord

\* C3, reached: "2024-13-40" has been answered 404 without a fetch
C3_Witness ==
    /\ DateDone
    /\ req.date = BadMonth
    /\ response.status = 404
    /\ indexFetches = 0

\* C4: whenever an outbound fetch made while serving the request has failed,
\* the response is HTTP 500.
C4_FetchFailureIs500 ==
    (pc = "done" /\ fetchFailed) => response.status = 500

\* C5: when the walk has used up its 400 steps without standing on a
\* matching page, or stands on a page with neither a previous nor a next link
\* that does not match, the request is answered 404 and carries no record.
C5_NoMatchIsNotFound ==
    (/\ DateDone
     /\ ~PageMatches
     /\ steps = 400 \/ DeadEnd)
    => /\ response.status = 404
       /\ response.record = NoRecord

\* C5, reached: 400 pages were fetched, none failed, none matched, the last
\* still had a link to follow, and the answer is 404
C5_Witness ==
    /\ DateDone
    /\ steps = 400
    /\ ~fetchFailed
    /\ page_html = NoPage
    /\ response.status = 404

\* a number that orders calendar days
DayNumber(dt) == (dt.y * 12 + dt.m) * 31 + dt.d

\* the walk stands on a page whose date, page, parses and is another day
\* than the target's
DatedElsewhere(page, target) ==
    /\ pc = "walk_step"
    /\ Truthy(nav[1])
    /\ page.ok
    /\ DayNumber(page) # DayNumber(target)

\* the step makes url the next page to visit
MovesTo(url) == pc' = "walk" /\ current_url' = url

\* the step of the walk from a page of day p toward day t
StepsToward(p, t) ==
    /\ (p > t /\ Truthy(nav[2])) => MovesTo(nav[2])
    /\ (p < t /\ Truthy(nav[3])) => MovesTo(nav[3])
    /\ (p > t /\ ~Truthy(nav[2]) /\ Truthy(nav[3])) => MovesTo(nav[3])
    /\ (p < t /\ ~Truthy(nav[3]) /\ Truthy(nav[2])) => MovesTo(nav[2])
    /\ (~Truthy(nav[2]) /\ ~Truthy(nav[3]))
       => pc' = "done" /\ response'.status = 404 /\ response'.record = NoRecord

\* C11: at every step of the walk on a page with a parseable date other than
\* the target: a page after the target is followed by its previous link, a
\* page before the target by its next link; the walk takes the other link
\* only when the link toward the target is missing, and stops (404) when the
\* page has no link at all.
C11_WalkDirection ==
    [][pc = "walk_step" =>
        LET page == Strptime(nav[1])
            target == Strptime(req.date)
        IN DatedElsewhere(page, target)
           => StepsToward(DayNumber(page), DayNumber(target))
      ]_vars

\* C11, reached: after an earlier move the walk stands on a page later than
\* the target that has no previous link but a next link, the case in which
\* it steps away from the target
C11_Witness ==
    /\ DatedElsewhere(Strptime(nav[1]), Strptime(req.date))
    /\ steps >= 2
    /\ current_url \in {<<BASE_URL>> \o l : l \in ChainLinks \ {None}}
    /\ DayNumber(Strptime(nav[1])) > DayNumber(Strptime(req.date))
    /\ ~Truthy(nav[2])
    /\ Truthy(nav[3])

\* C12: when the walk stands on a page whose date equals the target it stops
\* at that step, answering with the record built from the HTML it already
\* holds and issuing no fetch; a successful date request has made exactly one
\* index fetch and one fetch per page visited, none by the page parser, and
\* nothing happens after the answer.
C12_MatchStopsWalk ==
    /\ [][(pc = "walk_step" /\ PageMatches) =>
            /\ pc' = "done"
            /\ response' = Ok(scrape_devotional_page(current_url, page_html))
            /\ indexFetches' = indexFetches
            /\ chainFetches' = chainFetches
            /\ pageFetches' = pageFetches
         ]_vars
    /\ []((DateDone /\ response.status = 200) =>
            /\ indexFetches = 1
            /\ chainFetches = steps
            /\ pageFetches = 0
            /\ ~fetchFailed)
    /\ [][pc # "done"]_vars

\* C12, reached: the second page visited matched and was returned after one
\* index fetch and two chain fetches
C12_Witness ==
    /\ DateDone
    /\ response.status = 200
    /\ PageMatches
    /\ steps = 2
    /\ indexFetches + chainFetches + pageFetches = 3
    /\ response.record.url = current_url

\* the text of the page model that dates the page for the walk: otherDate
\* when it is present and reads as a date, else devotionalDate
DatingText(pm) ==
    IF pm.otherDate # None /\ DateutilParse(pm.otherDate).ok THEN pm.otherDate
    ELSE pm.devotionalDate

\* two parsed dates are the same calendar day
SameDay(a, b) == a.ok /\ b.ok /\ a.y = b.y /\ a.m = b.m /\ a.d = b.d

\* C13: whenever a date request is answered with a record, the record was
\* built from a page the walk fetched, whose embedded page model is readable
\* and whose date (otherDate, else devotionalDate) is the same calendar day
\* as the target; no record is returned for a page with another date or
\* with no date.
C13_ReturnedPageHasTargetDay ==
    (DateDone /\ response.status = 200)
    => /\ page_html # NoPage
       /\ NavData(page_html.script).hasPM
       /\ response.record = scrape_devotional_page(current_url, page_html)
       /\ SameDay(DateutilParse(DatingText(page_html.pm)), Strptime(req.date))

\* C13, reached: a page whose otherDate gives no date ("TBD") and whose
\* devotionalDate is the target's day was returned for "2024-1-18"
C13_Witness ==
    /\ DateDone
    /\ response.status = 200
    /\ req.date # D18
    /\ page_html.pm.otherDate = <<"T", "B", "D">>
    /\ page_html.pm.devotionalDate = D18 \o Midnight

(***************************************************************************)
(* Properties of GET /today, GET /devotional/{slug}, GET /list             *)
(***************************************************************************)
\* a devotional page has been received and turned into a record
PageDone ==
    /\ pc = "done"
    /\ req.ep \in {"today", "slug"}
    /\ response.status = 200

\* the script holds the marker followed by a text that is one JSON object
\* with a pageModel key, whatever its strings hold
ValidEmbeddedJson(script) ==
    /\ FindModel(script) > 0
    /\ \E e \in (FindModel(script) + 1)..Len(script) :
          LET data == JsonLoads(SubSeq(script, FindModel(script) + 1, e)) IN
          data.ok /\ data.hasPM

\* C6: for every page whose HTML holds the marker followed by a valid JSON
\* object with a pageModel key, the record's fields come from the page model
\* (its title is the page model's title), not from the HTML fallback.
C6_JsonPathTakesPrecedence ==
    (PageDone /\ ValidEmbeddedJson(input.script))
    => response.record.title = input.pm.pageTitle

\* C7: the preview list holds each devotional URL at most once.
C7_PreviewUrlsDistinct ==
    (pc = "done" /\ req.ep = "list" /\ response.status = 200)
    => \A i, j \in 1..Len(response.devotionals) :
          i # j => response.devotionals[i].url # response.devotionals[j].url

\* C8: a list request with limit outside 1..50 or a negative offset is
\* turned away without scrape_devotional_list being called and without a
\* fetch; an accepted request's count is the number of previews returned,
\* and that is at most limit.
C8_ListParameters ==
    req.ep = "list"
    => /\ (req.limit < 1 \/ req.limit > 50 \/ req.offset < 0)
          => /\ ~listCalled
             /\ indexFetches = 0
             /\ pc = "done" => response.status # 200 /\ response.devotionals = <<>>
       /\ (pc = "done" /\ response.status = 200)
          => /\ response.count = Len(response.devotionals)
             /\ response.count <= req.limit

\* C8, reached: limit = 51 has been turned away before the scraper ran
C8_Witness ==
    /\ pc = "done"
    /\ req.ep = "list"
    /\ req.limit = 51
    /\ req.offset = 0
    /\ ~listCalled
    /\ response.status = 422

\* the text before the first semicolon, and the text after it, of a verse
\* reference holding a semicolon
BeforeSemicolon(v) == SubSeq(v, 1, IndexOf(v, ";") - 1)

AfterSemicolon(v) == Drop(v, IndexOf(v, ";"))

\* the text between the first semicolon and the second, or the end
SecondReference(v) ==
    IF Contains(AfterSemicolon(v), ";") THEN BeforeSemicolon(AfterSemicolon(v))
    ELSE AfterSemicolon(v)

\* the reference names a book of the Old Testament by its canonical name
\* ("Genesis", "1 Samuel" among the words of the model)
HasCanonicalOTName(v) ==
    \/ Contains(v, "Genesis")
    \/ \E i \in 1..(Len(v) - 2) : v[i] = "1" /\ v[i + 1] = " " /\ v[i + 2] = "Samuel"

\* the bible-in-a-year texts a reference without a semicolon is given
Unsplit(v, isOld) ==
    IF isOld THEN [old_testament |-> v, new_testament |-> <<>>]
    ELSE [old_testament |-> <<>>, new_testament |-> v]

\* C9 as stated: a verse text with a semicolon has old_testament the trimmed
\* text before the first semicolon and new_testament the trimmed text after
\* it; an unsplit text is old_testament exactly when it holds a canonical Old
\* Testament book name, else new_testament.
C9_AsStated ==
    (PageDone /\ UsesPageModel(input) /\ Truthy(input.pm.verse))
    => LET v == input.pm.verse IN
       IF Contains(v, ";")
       THEN response.record.bible_in_year =
                [old_testament |-> Strip(BeforeSemicolon(v)),
                 new_testament |-> Strip(AfterSemicolon(v))]
       ELSE response.record.bible_in_year = Unsplit(v, HasCanonicalOTName(v))

\* C9, amended: a verse text with a semicolon has old_testament the trimmed
\* text before the first semicolon and new_testament the trimmed text between
\* the first semicolon and the second (or the end; what follows a second
\* semicolon is dropped); an unsplit text is old_testament exactly when it
\* holds one of the 36 strings the code lists ("Samuel", not "1 Samuel"), else
\* new_testament.
C9_BibleInYear ==
    (PageDone /\ UsesPageModel(input) /\ Truthy(input.pm.verse))
    => LET v == input.pm.verse IN
       IF Contains(v, ";")
       THEN response.record.bible_in_year =
                [old_testament |-> Strip(BeforeSemicolon(v)),
                 new_testament |-> Strip(SecondReference(v))]
       ELSE response.record.bible_in_year =
                Unsplit(v, \E i \in 1..Len(v) : v[i] \in OTBooks)

\* C9, reached: "Genesis;John;1" gave old_testament "Genesis" and
\* new_testament "John"
C9_Witness ==
    /\ PageDone
    /\ input.pm.verse = <<"Genesis", ";", "John", ";", "1">>
    /\ response.record.bible_in_year.new_testament = <<"John">>

\* C10: scrape_today hands on the first devotional path of the raw HTML;
\* only when the raw HTML holds none, the first matching anchor under <main>;
\* the answer is 404 exactly when neither exists, and no devotional page is
\* fetched then.
C10_TodayResolution ==
    req.ep = "today"
    => /\ pc = "page"
          => /\ pageFetches = 0
             /\ FindPaths(input) # <<>>
                => current_url = <<BASE_URL>> \o FindPaths(input)[1]
             /\ FindPaths(input) = <<>>
                => /\ MainAnchors(input) # <<>>
                   /\ current_url = MainAnchors(input)[1]
       /\ (pc = "done" /\ response.status = 404)
          => /\ FindPaths(input) = <<>>
             /\ MainAnchors(input) = <<>>
             /\ pageFetches = 0
             /\ ~fetchFailed
       /\ (pc = "done" /\ pageFetches = 0 /\ ~fetchFailed)
          => response.status = 404

\* C10, reached: the raw HTML holds no devotional path and the anchor under
\* <main> is handed on
C10_Witness ==
    /\ pc = "page"
    /\ req.ep = "today"
    /\ FindPaths(input) = <<>>
    /\ current_url = <<DEV_PATH>>

====
